---------------------------- MODULE Spec2Model ----------------------------
(***************************************************************************)
(* Model of the passkey origin validator (src/src/validator.ts).           *)
(*                                                                         *)
(* Strings are sequences of one-character strings, so that the string      *)
(* operations of the code (split, indexOf, endsWith, toLowerCase) and the  *)
(* two library parsers it calls (the URL constructor and psl.parse) are    *)
(* computed on the characters and can disagree with one another.           *)
(***************************************************************************)
EXTENDS Integers, Sequences, FiniteSets, TLC

(***************************************************************************)
(* JavaScript string primitives.                                           *)
(***************************************************************************)
UpperChars == <<"A", "B", "C", "D", "E", "F", "G", "H", "I", "J", "K", "L", "M",
                "N", "O", "P", "Q", "R", "S", "T", "U", "V", "W", "X", "Y", "Z">>
LowerChars == <<"a", "b", "c", "d", "e", "f", "g", "h", "i", "j", "k", "l", "m",
                "n", "o", "p", "q", "r", "s", "t", "u", "v", "w", "x", "y", "z">>
DigitChars == <<"0", "1", "2", "3", "4", "5", "6", "7", "8", "9">>

Range(s) == {s[i] : i \in DOMAIN s}

UpperSet == Range(UpperChars)
LowerSet == Range(LowerChars)
DigitSet == Range(DigitChars)

IsAlpha(c) == c \in UpperSet \/ c \in LowerSet
IsDigit(c) == c \in DigitSet

\* String.prototype.toLowerCase on one character, and on a string.
toLowerCaseChar(c) ==
  IF c \in UpperSet
    THEN LowerChars[CHOOSE i \in DOMAIN UpperChars : UpperChars[i] = c]
    ELSE c

toLowerCase(s) == [i \in DOMAIN s |-> toLowerCaseChar(s[i])]

\* s.startsWith(p, i - 1): p occurs in s at the 1-based position i.
OccursAt(s, p, i) ==
  /\ i >= 1
  /\ i + Len(p) - 1 <= Len(s)
  /\ \A k \in 1..Len(p) : s[i + k - 1] = p[k]

startsWith(s, p) == OccursAt(s, p, 1)

endsWith(s, p) == OccursAt(s, p, Len(s) - Len(p) + 1)

\* s.indexOf(p), 1-based; 0 where JavaScript answers -1.
indexOf(s, p) ==
  LET hits == {i \in 1..(Len(s) + 1) : OccursAt(s, p, i)}
  IN  IF hits = {} THEN 0 ELSE CHOOSE i \in hits : \A j \in hits : i <= j

\* s.split(p) for a non-empty separator p: every piece, in order.
RECURSIVE split(_, _)
split(s, p) ==
  LET i == indexOf(s, p)
  IN  IF i = 0
        THEN <<s>>
        ELSE <<SubSeq(s, 1, i - 1)>> \o split(SubSeq(s, i + Len(p), Len(s)), p)

\* The first position at or after from whose character is in stops;
\* Len(s) + 1 when there is none.
FirstOf(s, stops, from) ==
  LET hits == {i \in from..Len(s) : s[i] \in stops}
  IN  IF hits = {} THEN Len(s) + 1 ELSE CHOOSE i \in hits : \A j \in hits : i <= j

\* The first position at or after from whose character is not in skipped.
FirstNotOf(s, skipped, from) ==
  LET hits == {i \in from..Len(s) : s[i] \notin skipped}
  IN  IF hits = {} THEN Len(s) + 1 ELSE CHOOSE i \in hits : \A j \in hits : i <= j


(***************************************************************************)
(* new URL(input) as validator.ts uses it: it either throws or gives an    *)
(* object whose protocol and hostname the code reads.  The parser follows  *)
(* the URL Standard for the inputs of this model: a scheme, then for the   *)
(* special schemes any run of slashes before the authority, the authority  *)
(* up to the first "/", "?" or "#", credentials before "@", the port after *)
(* ":".  The host of a special scheme is lower-cased; a default port is    *)
(* dropped.  Not modelled: IP-address hosts, percent-encoding, IDNA, the   *)
(* file scheme, leading and trailing white space.                          *)
(***************************************************************************)
c_colon == <<":">>
c_dot == <<".">>
c_slash == <<"/">>
s_http == <<"h", "t", "t", "p">>
s_https == <<"h", "t", "t", "p", "s">>
s_ws == <<"w", "s">>
s_wss == <<"w", "s", "s">>
s_ftp == <<"f", "t", "p">>
s_schemeSep == <<":", "/", "/">>

SpecialSchemes == {s_http, s_https, s_ws, s_wss, s_ftp}

DefaultPort(scheme) ==
  IF scheme \in {s_https, s_wss} THEN <<"4", "4", "3">>
  ELSE IF scheme \in {s_http, s_ws} THEN <<"8", "0">>
  ELSE IF scheme = s_ftp THEN <<"2", "1">>
  ELSE <<"-">>

ForbiddenHostChars ==
  {" ", "#", "/", ":", "<", ">", "?", "@", "[", "\\", "]", "^", "|", "%"}

URLFailure == [ok |-> FALSE, protocol |-> <<>>, hostname |-> <<>>, port |-> <<>>]

\* The decimal digits of a port without its leading zeros.
StripZeros(digits) ==
  LET i == FirstNotOf(digits, {"0"}, 1)
  IN  IF digits = <<>> THEN <<>>
      ELSE IF i > Len(digits) THEN <<"0">>
      ELSE SubSeq(digits, i, Len(digits))

DigitValue(c) == (CHOOSE i \in DOMAIN DigitChars : DigitChars[i] = c) - 1

DigitsToInt(digits) ==
  LET value[n \in 0..Len(digits)] ==
        IF n = 0 THEN 0 ELSE 10 * value[n - 1] + DigitValue(digits[n])
  IN  value[Len(digits)]

PortTooLarge(digits) ==
  LET d == StripZeros(digits)
  IN  Len(d) > 5 \/ DigitsToInt(d) > 65535

LastIndexOfChar(s, c) ==
  LET hits == {i \in DOMAIN s : s[i] = c}
  IN  IF hits = {} THEN 0 ELSE CHOOSE i \in hits : \A j \in hits : j <= i

\* The authority has been split into host and port: validate and build the URL.
URLOfHostPort(scheme, special, at, hostport, rawHost, rawPort) ==
  IF \/ at > 0 /\ hostport = <<>>
     \/ Len(rawHost) < Len(hostport) /\ rawHost = <<>>
     \/ special /\ rawHost = <<>>
     \/ \E i \in DOMAIN rawHost : rawHost[i] \in ForbiddenHostChars
     \/ \E i \in DOMAIN rawPort : ~IsDigit(rawPort[i])
     \/ PortTooLarge(rawPort)
    THEN URLFailure
    ELSE [ok |-> TRUE,
          protocol |-> scheme \o c_colon,
          hostname |-> IF special THEN toLowerCase(rawHost) ELSE rawHost,
          port |-> IF StripZeros(rawPort) = DefaultPort(scheme)
                     THEN <<>> ELSE StripZeros(rawPort)]

\* hostport is the authority after its credentials; c is the place of its
\* first ":" (0 when it has none).
URLOfAuthority(scheme, special, at, hostport, c) ==
  IF c = 0
    THEN URLOfHostPort(scheme, special, at, hostport, hostport, <<>>)
    ELSE URLOfHostPort(scheme, special, at, hostport,
                       SubSeq(hostport, 1, c - 1),
                       SubSeq(hostport, c + 1, Len(hostport)))

\* at is the place of the last "@" of the authority (0 when it has none).
URLOfCredentials(scheme, special, authority, at) ==
  URLOfAuthority(scheme, special, at,
                 SubSeq(authority, at + 1, Len(authority)),
                 indexOf(SubSeq(authority, at + 1, Len(authority)), c_colon))

\* The authority starts at authStart and ends before the first of stops.
URLFrom(input, scheme, special, authStart, stops) ==
  URLOfCredentials(
    scheme, special,
    SubSeq(input, authStart, FirstOf(input, stops, authStart) - 1),
    LastIndexOfChar(SubSeq(input, authStart, FirstOf(input, stops, authStart) - 1), "@"))

\* The scheme is valid and ends before colon.
URLOfScheme(input, scheme, colon) ==
  IF scheme \in SpecialSchemes
    THEN URLFrom(input, scheme, TRUE,
                 FirstNotOf(input, {"/", "\\"}, colon + 1), {"/", "?", "#", "\\"})
    ELSE IF OccursAt(input, <<"/", "/">>, colon + 1)
      THEN URLFrom(input, scheme, FALSE, colon + 3, {"/", "?", "#"})
      ELSE [ok |-> TRUE, protocol |-> scheme \o c_colon,
            hostname |-> <<>>, port |-> <<>>]

\* colon is the place of the first ":" of input (0 when it has none).
URLOfColon(input, colon) ==
  IF /\ colon > 1
     /\ IsAlpha(input[1])
     /\ \A i \in 2..(colon - 1) :
          IsAlpha(input[i]) \/ IsDigit(input[i]) \/ input[i] \in {"+", "-", "."}
    THEN URLOfScheme(input, toLowerCase(SubSeq(input, 1, colon - 1)), colon)
    ELSE URLFailure

URLParse(input) == URLOfColon(input, indexOf(input, c_colon))

(***************************************************************************)
(* psl.parse(domain): the public-suffix resolver.  The suffix table is an  *)
(* excerpt of the public suffix list, in list order; psl takes the last    *)
(* rule that matches.  A domain under no listed suffix falls under the     *)
(* default rule "*".  The excerpt holds no wildcard and no exception rule. *)
(***************************************************************************)
tld_com == <<"c", "o", "m">>
tld_de == <<"d", "e">>
tld_uk == <<"u", "k">>
tld_co_uk == <<"c", "o", ".", "u", "k">>
tld_local == <<"l", "o", "c", "a", "l">>

PublicSuffixRules == <<tld_com, tld_de, tld_uk, tld_co_uk>>

\* psl's validate(): the label syntax a domain must have.
pslValid(domain) ==
  LET labels == split(domain, c_dot)
  IN  /\ Len(domain) >= 1
      /\ \A k \in DOMAIN labels :
           /\ Len(labels[k]) >= 1
           /\ labels[k][1] # "-"
           /\ labels[k][Len(labels[k])] # "-"
           /\ \A i \in DOMAIN labels[k] :
                \/ labels[k][i] \in LowerSet
                \/ IsDigit(labels[k][i])
                \/ labels[k][i] = "-"

pslNoDomain == [hasDomain |-> FALSE, domain |-> <<>>]

\* The rule found for the domain: sld and tld, joined (psl.parse, after findRule).
pslUnderRule(domainParts, rule, nPrivate) ==
  IF nPrivate <= 0 THEN pslNoDomain
  ELSE [hasDomain |-> TRUE,
        domain |-> domainParts[nPrivate] \o c_dot \o rule]

\* matching: the places in PublicSuffixRules of the rules that match.
pslOfParts(domainParts, matching) ==
  IF domainParts[Len(domainParts)] = tld_local THEN pslNoDomain
  ELSE IF matching = {}
    THEN IF Len(domainParts) < 2 THEN pslNoDomain
         ELSE [hasDomain |-> TRUE,
               domain |-> domainParts[Len(domainParts) - 1] \o c_dot
                            \o domainParts[Len(domainParts)]]
    ELSE pslUnderRule(
           domainParts,
           PublicSuffixRules[CHOOSE r \in matching : \A q \in matching : q <= r],
           Len(domainParts)
             - Len(split(PublicSuffixRules[CHOOSE r \in matching :
                                              \A q \in matching : q <= r], c_dot)))

\* domain is lower-cased and has lost a trailing dot.
pslOfDomain(domain) ==
  IF ~pslValid(domain) THEN pslNoDomain
  ELSE pslOfParts(split(domain, c_dot),
                  {r \in DOMAIN PublicSuffixRules :
                     \/ endsWith(domain, c_dot \o PublicSuffixRules[r])
                     \/ domain = PublicSuffixRules[r]})

pslTrimDot(lowered) ==
  IF Len(lowered) > 0 /\ lowered[Len(lowered)] = "."
    THEN pslOfDomain(SubSeq(lowered, 1, Len(lowered) - 1))
    ELSE pslOfDomain(lowered)

\* psl.parse(input): hasDomain is the truth of `'domain' in parsed && parsed.domain`.
pslParse(input) == pslTrimDot(toLowerCase(input))

(***************************************************************************)
(* getLabel(domain): the label before the public suffix; ok is FALSE where *)
(* the code throws 'Skip Domain not valid'.                                *)
(***************************************************************************)
getLabelThrows == [ok |-> FALSE, label |-> <<>>]

\* getLabel without the check for a dot: a host without one is its own label.
getLabel_dotless(domain) ==
  IF indexOf(domain, c_dot) = 0 THEN [ok |-> TRUE, label |-> domain]
  ELSE IF ~pslParse(domain).hasDomain THEN getLabelThrows
  ELSE [ok |-> TRUE,
        label |-> SubSeq(pslParse(domain).domain, 1,
                         indexOf(pslParse(domain).domain, c_dot) - 1)]

getLabel(domain) ==
  LET dotIndex == indexOf(domain, c_dot)
      parsed == pslParse(domain)
  IN  IF dotIndex = 0 THEN getLabelThrows
      ELSE IF ~parsed.hasDomain THEN getLabelThrows
      ELSE
        LET etldPlus1 == parsed.domain
            labelDotIndex == indexOf(etldPlus1, c_dot)
        IN  IF labelDotIndex = 0 THEN [ok |-> TRUE, label |-> etldPlus1]
            ELSE [ok |-> TRUE, label |-> SubSeq(etldPlus1, 1, labelDotIndex - 1)]


(***************************************************************************)
(* AuthenticatorStatus and CONSTANTS (types.ts).                           *)
(***************************************************************************)
SUCCESS == 0
BAD_RELYING_PARTY_ID_JSON_PARSE_ERROR == 1
BAD_RELYING_PARTY_ID_NO_JSON_MATCH == 2
BAD_RELYING_PARTY_ID_NO_JSON_MATCH_HIT_LIMITS == 3
BAD_RELYING_PARTY_ID_NOT_SUBDOMAIN_OF_ORIGIN == 4

MAX_LABELS == 5
MAX_BODY_SIZE == 262144

s_WELL_KNOWN_PATH ==
  <<"/", ".", "w", "e", "l", "l", "-", "k", "n", "o", "w", "n",
    "/", "w", "e", "b", "a", "u", "t", "h", "n">>

(***************************************************************************)
(* The comparison of validateWellKnownJSON: the text before the first      *)
(* "://" and the text between it and the next "/", of the raw strings.     *)
(***************************************************************************)
rawScheme(str) == split(str, s_schemeSep)[1]

rawHost(str) ==
  LET parts == split(str, s_schemeSep)
  IN  IF Len(parts) < 2 THEN <<>> ELSE split(parts[2], c_slash)[1]

\* The comparison made on lower-cased text.
originMatches_caseFolded(originStr, caller) ==
  /\ toLowerCase(rawScheme(originStr)) = toLowerCase(rawScheme(caller))
  /\ toLowerCase(rawHost(originStr)) = toLowerCase(rawHost(caller))

originMatches(originStr, caller) ==
  /\ rawScheme(originStr) = rawScheme(caller)
  /\ rawHost(originStr) = rawHost(caller)

(***************************************************************************)
(* isValidDomainForOrigin(callerOrigin, domain)                            *)
(***************************************************************************)
\* The comparison of registrable domains alone, without the suffix test.
isValidDomainForOrigin_registrableOnly(caller, domain) ==
  /\ URLParse(caller).ok
  /\ \/ domain = URLParse(caller).hostname
     \/ /\ pslParse(URLParse(caller).hostname).hasDomain
        /\ pslParse(domain).hasDomain
        /\ pslParse(domain).domain = pslParse(URLParse(caller).hostname).domain

\* Without the test for equality with the hostname.
isValidDomainForOrigin_noExact(caller, domain) ==
  /\ URLParse(caller).ok
  /\ endsWith(URLParse(caller).hostname, c_dot \o domain)
  /\ pslParse(URLParse(caller).hostname).hasDomain
  /\ pslParse(domain).hasDomain
  /\ pslParse(domain).domain = pslParse(URLParse(caller).hostname).domain

\* Without the tests that psl gave a registrable domain.
isValidDomainForOrigin_unresolvedOk(caller, domain) ==
  /\ URLParse(caller).ok
  /\ \/ domain = URLParse(caller).hostname
     \/ /\ endsWith(URLParse(caller).hostname, c_dot \o domain)
        /\ pslParse(domain).domain = pslParse(URLParse(caller).hostname).domain

\* Open on a caller origin that does not parse.
isValidDomainForOrigin_failOpen(caller, domain) ==
  \/ ~URLParse(caller).ok
  \/ domain = URLParse(caller).hostname
  \/ /\ endsWith(URLParse(caller).hostname, c_dot \o domain)
     /\ pslParse(URLParse(caller).hostname).hasDomain
     /\ pslParse(domain).hasDomain
     /\ pslParse(domain).domain = pslParse(URLParse(caller).hostname).domain

\* The suffix test alone, without the comparison of registrable domains.
isValidDomainForOrigin_suffixOnly(caller, domain) ==
  /\ URLParse(caller).ok
  /\ \/ domain = URLParse(caller).hostname
     \/ endsWith(URLParse(caller).hostname, c_dot \o domain)

isValidDomainForOrigin(caller, domain) ==
  LET originURL == URLParse(caller)
      originHostname == originURL.hostname
      originParsed == pslParse(originHostname)
      domainParsed == pslParse(domain)
  IN  IF ~originURL.ok THEN FALSE
      ELSE IF domain = originHostname THEN TRUE
      ELSE IF ~endsWith(originHostname, c_dot \o domain) THEN FALSE
      ELSE IF ~originParsed.hasDomain THEN FALSE
      ELSE IF ~domainParsed.hasDomain THEN FALSE
      ELSE IF domain = originParsed.domain THEN TRUE
      ELSE IF /\ domainParsed.domain = originParsed.domain
              /\ endsWith(originHostname, c_dot \o domain) THEN TRUE
      ELSE FALSE


(***************************************************************************)
(* fetchWellKnownWebAuthn(domain): the URL it requests, and the response   *)
(* headers it reads.                                                       *)
(***************************************************************************)
\* Lines 145-147: https:// is put before a domain that names no protocol.
formatDomain(domain) ==
  IF /\ ~startsWith(domain, s_https \o s_schemeSep)
     /\ ~startsWith(domain, s_http \o s_schemeSep)
    THEN s_https \o s_schemeSep \o domain
    ELSE domain

\* A URL built from parsedURL.host, which carries the port.
wellKnownURL_withPort(parsedURL) ==
  parsedURL.protocol \o <<"/", "/">> \o parsedURL.hostname
    \o (IF parsedURL.port = <<>> THEN <<>> ELSE c_colon \o parsedURL.port)
    \o s_WELL_KNOWN_PATH

\* Line 158.
wellKnownURL(parsedURL) ==
  parsedURL.protocol \o <<"/", "/">> \o parsedURL.hostname \o s_WELL_KNOWN_PATH

\* The content-length header: absent (or empty), text parseInt gives NaN
\* for, or a number.
HeaderAbsent == [kind |-> "absent", value |-> 0]
HeaderUnparsable == [kind |-> "unparsable", value |-> 0]
HeaderNumber(n) == [kind |-> "number", value |-> n]

\* contentLength && parseInt(contentLength) > CONSTANTS.MAX_BODY_SIZE
declaredTooLarge(contentLength) ==
  contentLength.kind = "number" /\ contentLength.value > MAX_BODY_SIZE

\* text.length > CONSTANTS.MAX_BODY_SIZE
textTooLarge(length) == length > MAX_BODY_SIZE

(***************************************************************************)
(* The inputs.  A JSON text is held as the value JSON.parse gives for it   *)
(* ("malformed" where JSON.parse throws): its top-level kind, the kind of  *)
(* its origins member, and the elements of the origins array.              *)
(***************************************************************************)
h_foo_com == <<"f", "o", "o", ".", "c", "o", "m">>
h_FOO_com == <<"F", "O", "O", ".", "c", "o", "m">>
h_sub_foo_com == <<"s", "u", "b", ".", "f", "o", "o", ".", "c", "o", "m">>
h_deep_sub_foo_com == <<"d", "e", "e", "p", ".", "s", "u", "b", ".", "f", "o", "o", ".", "c", "o", "m">>
h_Sub_FOO_com == <<"S", "u", "b", ".", "F", "O", "O", ".", "c", "o", "m">>
h_notfoo_com == <<"n", "o", "t", "f", "o", "o", ".", "c", "o", "m">>
h_foo_co_uk == <<"f", "o", "o", ".", "c", "o", ".", "u", "k">>
h_sub_foo_co_uk == <<"s", "u", "b", ".", "f", "o", "o", ".", "c", "o", ".", "u", "k">>
h_foo_de == <<"f", "o", "o", ".", "d", "e">>
h_sub_foo_de == <<"s", "u", "b", ".", "f", "o", "o", ".", "d", "e">>
h_localhost == <<"l", "o", "c", "a", "l", "h", "o", "s", "t">>
h_b_com == <<"b", ".", "c", "o", "m">>
h_c_com == <<"c", ".", "c", "o", "m">>
h_d_com == <<"d", ".", "c", "o", "m">>
h_e_com == <<"e", ".", "c", "o", "m">>
h_g_com == <<"g", ".", "c", "o", "m">>
h_k_com == <<"k", ".", "c", "o", "m">>
s_HTTPS == <<"H", "T", "T", "P", "S">>
s_other == <<"o", "t", "h", "e", "r">>
s_port8080 == <<":", "8", "0", "8", "0">>
s_port9090 == <<":", "9", "0", "9", "0">>
s_path == <<"/", "p", "a", "t", "h">>
s_query == <<"?", "q">>
s_invalid_url == <<"i", "n", "v", "a", "l", "i", "d", "-", "u", "r", "l">>

https(host) == s_https \o s_schemeSep \o host

\* Caller origins: serialized origins (scheme://host[:port]), and a string
\* that is no URL.
CallerOrigins ==
  { https(h_foo_com), https(h_foo_com) \o s_port8080, https(h_g_com),
    https(h_localhost), https(tld_co_uk), s_other \o s_schemeSep,
    s_invalid_url }

\* Strings a document may list: any text at all.
OriginStrings ==
  { https(h_foo_com),
    s_HTTPS \o s_schemeSep \o h_foo_com,
    https(h_FOO_com),
    https(h_foo_com) \o s_port8080,
    https(h_foo_com) \o s_port9090,
    https(h_foo_com) \o s_path,
    https(h_foo_com) \o s_query,
    https(h_g_com),
    https(h_localhost),
    https(tld_co_uk),
    s_other \o s_schemeSep,
    s_invalid_url }

StringItem(str) == [isString |-> TRUE, str |-> str]
NumberItem == [isString |-> FALSE, str |-> <<>>]

Items == {StringItem(str) : str \in OriginStrings} \cup {NumberItem}

\* Origins of pairwise different labels, to fill the quota.
FillerHosts == <<h_sub_foo_com, h_b_com, h_c_com, h_d_com, h_e_com, h_k_com>>

Fill(n) == [i \in 1..n |-> StringItem(https(FillerHosts[i]))]

\* Origins that all carry the label foo.
SameLabelHosts ==
  <<h_sub_foo_com, h_foo_co_uk, h_deep_sub_foo_com, h_sub_foo_co_uk,
    h_foo_de, h_sub_foo_de>>

SameLabelFill(n) == [i \in 1..n |-> StringItem(https(SameLabelHosts[i]))]

MaxTail == 2

SeqsUpTo(S, n) == UNION {[1..k -> S] : k \in 0..n}

Prefixes ==
  {Fill(n) : n \in {0, MAX_LABELS - 1, MAX_LABELS}}
    \cup {SameLabelFill(MAX_LABELS + 1)}

JsonValue(top, origins, items) == [top |-> top, origins |-> origins, items |-> items]

JsonTexts ==
  {JsonValue(top, "missing", <<>>) :
     top \in {"malformed", "null", "array", "string", "number", "object"}}
    \cup {JsonValue("object", o, <<>>) : o \in {"string", "zero", "object"}}
    \cup {JsonValue("object", "array", pre \o tail) :
            pre \in Prefixes, tail \in SeqsUpTo(Items, MaxTail)}

\* Inputs of isValidDomainForOrigin.
AuthCallerOrigins ==
  { https(h_foo_com), https(h_sub_foo_com), https(h_deep_sub_foo_com),
    https(h_notfoo_com), https(h_sub_foo_co_uk), https(tld_co_uk),
    https(h_localhost), s_other \o s_schemeSep \o h_Sub_FOO_com,
    https(h_FOO_com), s_invalid_url }

RpIds ==
  { h_foo_com, h_sub_foo_com, h_deep_sub_foo_com, h_FOO_com, h_notfoo_com,
    h_foo_co_uk, tld_co_uk, tld_uk, tld_com, h_localhost, h_g_com, <<>> }

\* Inputs of validateOrigin, and what the server may answer.
h_port_path ==
  <<"g", ".", "c", "o", "m", ":", "8", "4", "4", "3", "/", "x", "?", "y", "#", "z">>

OrchestratorCallers == {https(h_foo_com), https(h_g_com), s_invalid_url}

OrchestratorRpIds ==
  {h_foo_com, h_g_com, s_http \o s_schemeSep \o h_g_com, h_port_path, <<>>}

ContentLengths ==
  {HeaderAbsent, HeaderUnparsable, HeaderNumber(MAX_BODY_SIZE),
   HeaderNumber(MAX_BODY_SIZE + 1)}

NoResponse == [received |-> FALSE, ok |-> FALSE, contentLength |-> HeaderAbsent]

Responses ==
  {[received |-> TRUE, ok |-> o, contentLength |-> c] :
     o \in BOOLEAN, c \in ContentLengths}

\* A body as the server sent it and as response.text() decodes it: bytes is
\* its size on the wire, length the length of the decoded string in UTF-16
\* code units.  A character of the ASCII range takes one byte and one code
\* unit, any other character more bytes than code units: length <= bytes.
NoBody == [bytes |-> 0, length |-> 0]

AsciiBody(n) == [bytes |-> n, length |-> n]

\* n code units, the last of them a character of two bytes (such as U+00E9).
TwoByteTailBody(n) == [bytes |-> n + 1, length |-> n]

BodySizes ==
  {AsciiBody(MAX_BODY_SIZE), AsciiBody(MAX_BODY_SIZE + 1),
   TwoByteTailBody(MAX_BODY_SIZE)}

FetchedDocuments ==
  {JsonValue("malformed", "missing", <<>>),
   JsonValue("null", "missing", <<>>),
   JsonValue("object", "missing", <<>>),
   JsonValue("object", "array", <<>>),
   JsonValue("object", "array", <<NumberItem>>),
   JsonValue("object", "array", <<StringItem(https(h_foo_com))>>),
   JsonValue("object", "array", <<StringItem(https(h_g_com))>>),
   JsonValue("object", "array",
             <<StringItem(s_invalid_url), StringItem(s_other \o s_schemeSep),
               StringItem(https(h_localhost)), StringItem(https(h_foo_com))>>),
   JsonValue("object", "array", Fill(MAX_LABELS) \o <<StringItem(https(h_g_com))>>),
   JsonValue("object", "array",
             Fill(MAX_LABELS) \o <<StringItem(https(h_g_com)),
                                    StringItem(https(h_foo_com))>>)}

\* The rpIds validatePasskeyOrigin is called with.
PasskeyRpIds == {h_foo_com, h_g_com}

\* The arguments of createLoggingAdapter and of the adapter it returns: a
\* logging function is undefined (none supplied), one that returns, or one
\* that throws on every call; the error argument is undefined or an Error.
LoggingFunctions == {"undefined", "returns", "throws"}

Messages == {"Parsing JSON data for validation", "Failed to parse JSON data"}

Errors == {"undefined", "Error"}

\* Every string the calls of this model hand to new URL, and the values it
\* gives for them, computed once.
FillerStrings ==
  {https(FillerHosts[i]) : i \in DOMAIN FillerHosts}
    \cup {https(SameLabelHosts[i]) : i \in DOMAIN SameLabelHosts}

DocumentStrings == OriginStrings \cup FillerStrings

URLInputs ==
  CallerOrigins \cup AuthCallerOrigins \cup DocumentStrings
    \cup {formatDomain(d) : d \in OrchestratorRpIds}

URLTable == [s \in URLInputs |-> URLParse(s)] @@ <<>>

newURL(s) == URLTable[s]

\* getLabel of every hostname those URLs have.
LabelTable ==
  [h \in {URLTable[s].hostname : s \in URLInputs} |-> getLabel(h)] @@ <<>>

labelOf(hostname) == LabelTable[hostname]

\* The comparison of lines 121-126 for every element and caller.
MatchTable ==
  [p \in DocumentStrings \X CallerOrigins |-> originMatches(p[1], p[2])] @@ <<>>

matchesCaller(str, caller) == MatchTable[<<str, caller>>]

(***************************************************************************)
(* The state: one call of an exported function, at position pc.            *)
(***************************************************************************)
VARIABLES
  fn,            \* the function called
  callerOrigin,  \* its callerOrigin argument
  jsonData,      \* validateWellKnownJSON's jsonData argument
  rpId,          \* isValidDomainForOrigin's domain argument
  pc,            \* the position in the function body
  idx,           \* the index of the second loop over origins (1-based)
  uniqueLabels,  \* the set of labels admitted so far
  hitLimits,     \* the quota-exceeded flag
  outcome,       \* pending, a returned value, or a thrown error
  requests,      \* the URLs handed to fetch, in order
  timer,         \* the abort timer: "none", "armed", "cleared" or "fired"
  aborted,       \* controller.abort() has been called
  deadlinePassed,\* TIMEOUT ms have passed since the timer was armed
  response,      \* the response fetch resolved with
  body,          \* the body response.text() resolved with
  fetchOutcome,  \* how fetchWellKnownWebAuthn settled
  suspended,     \* the other call, while it waits at an await
  result,        \* the object a validatePasskeyOrigin* wrapper returned
  sinkCalls,     \* the calls made to the logging sinks, in order
  finished,      \* the number of earlier calls that have returned
  args           \* the arguments of a function of index.ts or logger.ts

fetchVars ==
  <<requests, timer, aborted, deadlinePassed, response, body, fetchOutcome>>

\* What lies outside one call.
outerVars == <<suspended, result, sinkCalls, finished, args>>

vars ==
  <<fn, callerOrigin, jsonData, rpId, pc, idx, uniqueLabels, hitLimits, outcome,
    requests, timer, aborted, deadlinePassed, response, body, fetchOutcome,
    suspended, result, sinkCalls, finished, args>>

Pending == [kind |-> "pending"]
Return(v) == [kind |-> "return", value |-> v]
Throw(e) == [kind |-> "throw", error |-> e]

\* No other call waits, no wrapper has returned.
NoCall == [present |-> FALSE]
NoResult == [returned |-> FALSE]

\* The fetch has not begun and the scan has not started.
InitLocals ==
  /\ requests = <<>>
  /\ timer = "none"
  /\ aborted = FALSE
  /\ deadlinePassed = FALSE
  /\ response = NoResponse
  /\ body = NoBody
  /\ fetchOutcome = [kind |-> "pending"]
  /\ suspended = NoCall
  /\ result = NoResult
  /\ sinkCalls = <<>>
  /\ finished = 0
  /\ idx = 1
  /\ uniqueLabels = {}
  /\ hitLimits = FALSE
  /\ outcome = [kind |-> "pending"]

\* A call of validateOrigin.
InitValidateOrigin ==
  /\ fn = "validateOrigin"
  /\ callerOrigin \in OrchestratorCallers
  /\ rpId \in OrchestratorRpIds
  /\ jsonData = JsonValue("malformed", "missing", <<>>)
  /\ pc = "validateOrigin"
  /\ args = <<>>
  /\ InitLocals

\* A function of index.ts has been called and has not yet called the
\* validator: the validator's parameters are not bound.
Unbound ==
  /\ callerOrigin = <<>>
  /\ rpId = <<>>
  /\ jsonData = JsonValue("malformed", "missing", <<>>)
  /\ pc = "index"

Init ==
  /\ \/ /\ fn = "validateWellKnownJSON"
        /\ callerOrigin \in CallerOrigins
        /\ jsonData \in JsonTexts
        /\ rpId = <<>>
        /\ pc = "parseJSON"
        /\ args = <<>>
     \/ /\ fn = "isValidDomainForOrigin"
        /\ callerOrigin \in AuthCallerOrigins
        /\ rpId \in RpIds
        /\ jsonData = JsonValue("malformed", "missing", <<>>)
        /\ pc = "isValidDomainForOrigin"
        /\ args = <<>>
     \/ /\ fn = "validateOrigin"
        /\ callerOrigin \in OrchestratorCallers
        /\ rpId \in OrchestratorRpIds
        /\ jsonData = JsonValue("malformed", "missing", <<>>)
        /\ pc = "validateOrigin"
        /\ args = <<>>
     \/ /\ fn = "validatePasskeyOrigin"
        /\ args \in PasskeyRpIds \X OrchestratorCallers
        /\ Unbound
     \/ /\ fn = "validatePasskeyOriginFromJSON"
        /\ args \in OrchestratorCallers \X FetchedDocuments
        /\ Unbound
     \/ /\ fn = "createLoggingAdapter"
        /\ args \in LoggingFunctions \X Messages \X Errors
        /\ callerOrigin = <<>>
        /\ rpId = <<>>
        /\ jsonData = JsonValue("malformed", "missing", <<>>)
        /\ pc = "adapter"
  /\ InitLocals

inputs == <<fn, callerOrigin, jsonData, rpId>>

\* The function returns or throws; inside validateOrigin control goes back
\* to line 298.
Finish(o) ==
  /\ pc' = CASE fn \in {"validateOrigin", "validatePasskeyOrigin"} -> "matcherReturned"
             [] fn = "validatePasskeyOriginFromJSON" -> "validatorSettled"
             [] OTHER -> "done"
  /\ outcome' = o

(***************************************************************************)
(* validateWellKnownJSON, lines 53-81: the structure of the document and   *)
(* the caller origin.                                                      *)
(***************************************************************************)
\* JSON.parse(jsonData) throws.
JSONParseThrows(text) == text.top = "malformed"

\* Reading .origins of the parsed value throws (a TypeError) on null.
OriginsReadThrows(value) == value.top = "null"

\* !webAuthnResp.origins || !Array.isArray(webAuthnResp.origins)
OriginsNotAnArray(value) ==
  \/ value.top # "object"
  \/ value.origins \in {"missing", "zero"}
  \/ value.origins \in {"string", "object"}

\* Some element of origins is not a string.
SomeOriginNotString(value) == \E i \in DOMAIN value.items : ~value.items[i].isString

ParseJSON ==
  /\ pc = "parseJSON"
  /\ IF JSONParseThrows(jsonData)
       THEN Finish(Return(BAD_RELYING_PARTY_ID_JSON_PARSE_ERROR))
       ELSE pc' = "checkOrigins" /\ UNCHANGED outcome
  /\ UNCHANGED <<inputs, idx, uniqueLabels, hitLimits, fetchVars>>
  /\ UNCHANGED outerVars

CheckOrigins ==
  /\ pc = "checkOrigins"
  /\ IF OriginsReadThrows(jsonData)
       THEN Finish(Throw("TypeError"))
       ELSE IF OriginsNotAnArray(jsonData)
         THEN Finish(Return(BAD_RELYING_PARTY_ID_JSON_PARSE_ERROR))
         ELSE pc' = "checkStrings" /\ UNCHANGED outcome
  /\ UNCHANGED <<inputs, idx, uniqueLabels, hitLimits, fetchVars>>
  /\ UNCHANGED outerVars

CheckStrings ==
  /\ pc = "checkStrings"
  /\ IF SomeOriginNotString(jsonData)
       THEN Finish(Return(BAD_RELYING_PARTY_ID_JSON_PARSE_ERROR))
       ELSE pc' = "parseCaller" /\ UNCHANGED outcome
  /\ UNCHANGED <<inputs, idx, uniqueLabels, hitLimits, fetchVars>>
  /\ UNCHANGED outerVars

\* A matcher whose label set and flag outlive the call: they are created
\* once, not at lines 84-85 of every call.
ParseCaller_keepsLocals ==
  /\ pc = "parseCaller"
  /\ IF ~newURL(callerOrigin).ok
       THEN /\ Finish(Return(BAD_RELYING_PARTY_ID_NO_JSON_MATCH))
            /\ UNCHANGED idx
       ELSE /\ pc' = "scan"
            /\ idx' = 1
            /\ UNCHANGED outcome
  /\ UNCHANGED <<inputs, uniqueLabels, hitLimits, fetchVars>>
  /\ UNCHANGED outerVars

ParseCaller ==
  /\ pc = "parseCaller"
  /\ IF ~newURL(callerOrigin).ok
       THEN /\ Finish(Return(BAD_RELYING_PARTY_ID_NO_JSON_MATCH))
            /\ UNCHANGED <<idx, uniqueLabels, hitLimits>>
       ELSE /\ pc' = "scan"
            /\ idx' = 1
            /\ uniqueLabels' = {}
            /\ hitLimits' = FALSE
            /\ UNCHANGED outcome
  /\ UNCHANGED <<inputs, fetchVars>>
  /\ UNCHANGED outerVars

(***************************************************************************)
(* validateWellKnownJSON, lines 83-135: the scan of the origins array.     *)
(* Each action is one iteration of the loop, for the element at idx.       *)
(***************************************************************************)
originStr == jsonData.items[idx].str

\* A quota that admits one label more.
quotaFull_offByOne(labels) == Cardinality(labels) > MAX_LABELS

\* A quota on the elements scanned rather than on the labels admitted.
quotaFull_countsElements(labels) == idx - 1 >= MAX_LABELS

\* uniqueLabels.size >= CONSTANTS.MAX_LABELS
quotaFull(labels) == Cardinality(labels) >= MAX_LABELS

\* A scan that forgets the flag.
statusAfterScan_noLimits(hit) == BAD_RELYING_PARTY_ID_NO_JSON_MATCH

\* The status returned once the array is exhausted (lines 131-134).
statusAfterScan(hit) ==
  IF hit THEN BAD_RELYING_PARTY_ID_NO_JSON_MATCH_HIT_LIMITS
  ELSE BAD_RELYING_PARTY_ID_NO_JSON_MATCH

InScan ==
  /\ pc = "scan"
  /\ idx <= Len(jsonData.items)

Continue ==
  /\ idx' = idx + 1
  /\ UNCHANGED <<inputs, pc, outcome, fetchVars>>
  /\ UNCHANGED outerVars

\* new URL(originStr) throws: continue (lines 89-93).
SkipInvalidURL ==
  /\ InScan
  /\ ~newURL(originStr).ok
  /\ Continue
  /\ UNCHANGED <<uniqueLabels, hitLimits>>

\* The hostname is empty: continue (lines 96-99).
SkipEmptyHostname ==
  /\ InScan
  /\ newURL(originStr).ok
  /\ newURL(originStr).hostname = <<>>
  /\ Continue
  /\ UNCHANGED <<uniqueLabels, hitLimits>>

\* getLabel throws: continue (lines 102-108).
SkipNoLabel ==
  /\ InScan
  /\ newURL(originStr).ok
  /\ newURL(originStr).hostname # <<>>
  /\ ~labelOf(newURL(originStr).hostname).ok
  /\ Continue
  /\ UNCHANGED <<uniqueLabels, hitLimits>>

HasLabel ==
  /\ InScan
  /\ newURL(originStr).ok
  /\ newURL(originStr).hostname # <<>>
  /\ labelOf(newURL(originStr).hostname).ok

etldPlus1Label == labelOf(newURL(originStr).hostname).label

\* A scan that stops at the first label over the quota.
SkipOverQuota_break ==
  /\ HasLabel
  /\ etldPlus1Label \notin uniqueLabels
  /\ quotaFull(uniqueLabels)
  /\ hitLimits' = TRUE
  /\ idx' = Len(jsonData.items) + 1
  /\ UNCHANGED <<inputs, pc, outcome, uniqueLabels, fetchVars>>
  /\ UNCHANGED outerVars

\* A new label while the quota is full: set the flag, continue (lines 110-114).
SkipOverQuota ==
  /\ HasLabel
  /\ etldPlus1Label \notin uniqueLabels
  /\ quotaFull(uniqueLabels)
  /\ hitLimits' = TRUE
  /\ Continue
  /\ UNCHANGED uniqueLabels

Admitted ==
  /\ HasLabel
  /\ etldPlus1Label \in uniqueLabels \/ ~quotaFull(uniqueLabels)

\* The element is admitted and equals the caller: return SUCCESS (lines 115-128).
ReturnSuccess ==
  /\ Admitted
  /\ matchesCaller(originStr, callerOrigin)
  /\ uniqueLabels' = uniqueLabels \cup {etldPlus1Label}
  /\ Finish(Return(SUCCESS))
  /\ UNCHANGED <<inputs, idx, hitLimits, fetchVars>>
  /\ UNCHANGED outerVars

\* The element is admitted and differs from the caller: next element.
NoMatch ==
  /\ Admitted
  /\ ~matchesCaller(originStr, callerOrigin)
  /\ uniqueLabels' = uniqueLabels \cup {etldPlus1Label}
  /\ Continue
  /\ UNCHANGED hitLimits

\* The array is exhausted (lines 131-134).
ReturnAfterScan ==
  /\ pc = "scan"
  /\ idx > Len(jsonData.items)
  /\ Finish(Return(statusAfterScan(hitLimits)))
  /\ UNCHANGED <<inputs, idx, uniqueLabels, hitLimits, fetchVars>>
  /\ UNCHANGED outerVars

(***************************************************************************)
(* validateWellKnownJSON(callerOrigin, jsonData) as a function of its two  *)
(* arguments: what one call, run by itself from line 53 to its return,     *)
(* gives.                                                                  *)
(***************************************************************************)
\* The loop of lines 87-129 from element i on, with the labels admitted and
\* the flag set by the elements before it.
RECURSIVE scanOrigins(_, _, _, _, _)
scanOrigins(origins, caller, i, labels, hit) ==
  IF i > Len(origins) THEN Return(statusAfterScan(hit))
  ELSE IF \/ ~newURL(origins[i].str).ok
          \/ newURL(origins[i].str).hostname = <<>>
          \/ ~labelOf(newURL(origins[i].str).hostname).ok
    THEN scanOrigins(origins, caller, i + 1, labels, hit)
  ELSE IF /\ labelOf(newURL(origins[i].str).hostname).label \notin labels
          /\ quotaFull(labels)
    THEN scanOrigins(origins, caller, i + 1, labels, TRUE)
  ELSE IF matchesCaller(origins[i].str, caller) THEN Return(SUCCESS)
  ELSE scanOrigins(origins, caller, i + 1,
                   labels \cup {labelOf(newURL(origins[i].str).hostname).label}, hit)

validateWellKnownJSON(caller, text) ==
  IF JSONParseThrows(text) THEN Return(BAD_RELYING_PARTY_ID_JSON_PARSE_ERROR)
  ELSE IF OriginsReadThrows(text) THEN Throw("TypeError")
  ELSE IF OriginsNotAnArray(text) \/ SomeOriginNotString(text)
    THEN Return(BAD_RELYING_PARTY_ID_JSON_PARSE_ERROR)
  ELSE IF ~newURL(caller).ok THEN Return(BAD_RELYING_PARTY_ID_NO_JSON_MATCH)
  ELSE scanOrigins(text.items, caller, 1, {}, FALSE)

(***************************************************************************)
(* A call of isValidDomainForOrigin.                                       *)
(***************************************************************************)
CallIsValidDomainForOrigin ==
  /\ pc = "isValidDomainForOrigin"
  /\ Finish(Return(isValidDomainForOrigin(callerOrigin, rpId)))
  /\ UNCHANGED <<inputs, idx, uniqueLabels, hitLimits, fetchVars>>
  /\ UNCHANGED outerVars

(***************************************************************************)
(* validateOrigin(callerOrigin, domain), lines 289-303, with the call of   *)
(* fetchWellKnownWebAuthn(domain), lines 143-200, in line.  The server and *)
(* the network choose when and how fetch and response.text() settle; the   *)
(* timer fires TIMEOUT ms after it was armed unless it was cleared.        *)
(***************************************************************************)
matcherVars == <<idx, uniqueLabels, hitLimits>>

\* Where validateOrigin returns to: line 48 of index.ts when
\* validatePasskeyOrigin called it.
validateOriginReturnsTo ==
  IF fn = "validatePasskeyOrigin" THEN "validatorSettled" ELSE "done"

\* fetchWellKnownWebAuthn returns or throws: control goes back to line 297.
FetchSettles(o) ==
  /\ fetchOutcome' = o
  /\ pc' = "fetchSettled"

\* A call that goes to the well-known endpoint whatever the direct check says.
DirectCheck_alwaysFetch ==
  /\ pc = "validateOrigin"
  /\ pc' = "fetchWellKnownWebAuthn"
  /\ UNCHANGED <<inputs, matcherVars, outcome, fetchVars>>
  /\ UNCHANGED outerVars

\* Lines 290-293: the direct check.
DirectCheck ==
  /\ pc = "validateOrigin"
  /\ IF isValidDomainForOrigin(callerOrigin, rpId)
       THEN pc' = validateOriginReturnsTo /\ outcome' = Return(SUCCESS)
       ELSE pc' = "fetchWellKnownWebAuthn" /\ UNCHANGED outcome
  /\ UNCHANGED <<inputs, matcherVars, fetchVars>>
  /\ UNCHANGED outerVars

\* Lines 143-171: the URL is built, the timer armed and the request issued.
StartFetch ==
  /\ pc = "fetchWellKnownWebAuthn"
  /\ IF ~newURL(formatDomain(rpId)).ok
       THEN /\ FetchSettles(Throw("Invalid domain"))
            /\ UNCHANGED <<requests, timer>>
       ELSE /\ timer' = "armed"
            /\ requests' = Append(requests, wellKnownURL(newURL(formatDomain(rpId))))
            /\ pc' = "awaitResponse"
            /\ UNCHANGED fetchOutcome
  /\ UNCHANGED <<inputs, matcherVars, outcome, aborted, deadlinePassed, response, body>>
  /\ UNCHANGED outerVars

\* A fetch that leaves its timer armed when the response arrives.
ResponseArrives_keepsTimer ==
  /\ pc = "awaitResponse"
  /\ ~aborted
  /\ \E answer \in Responses :
       /\ response' = answer
       /\ IF ~answer.ok THEN FetchSettles(Throw("HTTP error"))
          ELSE IF declaredTooLarge(answer.contentLength)
            THEN FetchSettles(Throw("Response too large"))
            ELSE pc' = "readBody" /\ UNCHANGED fetchOutcome
  /\ UNCHANGED <<inputs, matcherVars, outcome, requests, aborted, deadlinePassed,
                 body, timer>>
  /\ UNCHANGED outerVars

\* fetch resolves with a response: lines 173-183.
ResponseArrives ==
  /\ pc = "awaitResponse"
  /\ ~aborted
  /\ \E answer \in Responses :
       /\ response' = answer
       /\ IF ~answer.ok THEN FetchSettles(Throw("HTTP error"))
          ELSE IF declaredTooLarge(answer.contentLength)
            THEN FetchSettles(Throw("Response too large"))
            ELSE pc' = "readBody" /\ UNCHANGED fetchOutcome
  /\ timer' = "cleared"
  /\ UNCHANGED <<inputs, matcherVars, outcome, requests, aborted, deadlinePassed, body>>
  /\ UNCHANGED outerVars

\* fetch rejects with a network error: lines 193-198.
NetworkError ==
  /\ pc = "awaitResponse"
  /\ ~aborted
  /\ timer' = "cleared"
  /\ FetchSettles(Throw("Network error"))
  /\ UNCHANGED <<inputs, matcherVars, outcome, requests, aborted, deadlinePassed,
                 response, body>>
  /\ UNCHANGED outerVars

\* The timer of line 162 fires: controller.abort().
TimerFires ==
  /\ timer = "armed"
  /\ timer' = "fired"
  /\ aborted' = TRUE
  /\ deadlinePassed' = TRUE
  /\ UNCHANGED <<inputs, matcherVars, outcome, pc, requests, response, body, fetchOutcome>>
  /\ UNCHANGED outerVars

\* The aborted fetch rejects with an AbortError: lines 193-197.
AbortRejects ==
  /\ pc = "awaitResponse"
  /\ aborted
  /\ FetchSettles(Throw("Request timeout"))
  /\ UNCHANGED <<inputs, matcherVars, outcome, requests, timer, aborted,
                 deadlinePassed, response, body>>
  /\ UNCHANGED outerVars

\* TIMEOUT ms have passed while response.text() is pending; the timer was
\* cleared at line 173.
DeadlinePasses ==
  /\ pc = "readBody"
  /\ timer = "cleared"
  /\ ~deadlinePassed
  /\ deadlinePassed' = TRUE
  /\ UNCHANGED <<inputs, matcherVars, outcome, pc, requests, timer, aborted,
                 response, body, fetchOutcome>>
  /\ UNCHANGED outerVars

\* response.text() resolves: lines 185-192.
BodyRead ==
  /\ pc = "readBody"
  /\ \E received \in BodySizes, text \in FetchedDocuments :
       /\ body' = received
       /\ IF textTooLarge(received.length)
            THEN FetchSettles(Throw("Response too large")) /\ UNCHANGED jsonData
            ELSE FetchSettles(Return("text")) /\ jsonData' = text
  /\ UNCHANGED <<fn, callerOrigin, rpId, matcherVars, outcome, requests, timer,
                 aborted, deadlinePassed, response>>
  /\ UNCHANGED outerVars

\* response.text() rejects.
BodyFails ==
  /\ pc = "readBody"
  /\ FetchSettles(Throw("Network error"))
  /\ UNCHANGED <<inputs, matcherVars, outcome, requests, timer, aborted,
                 deadlinePassed, response, body>>
  /\ UNCHANGED outerVars

\* A catch block that throws the error on.
validateOriginCatch_rethrow(error) == Throw(error)

\* Lines 299-302: the catch block of validateOrigin.
validateOriginCatch(error) == Return(BAD_RELYING_PARTY_ID_NO_JSON_MATCH)

\* A fetch that is tried once more after a failure.
FetchCaught_retry ==
  /\ pc = "fetchSettled"
  /\ fetchOutcome.kind = "throw"
  /\ IF Len(requests) = 1
       THEN /\ pc' = "fetchWellKnownWebAuthn"
            /\ fetchOutcome' = Pending
            /\ aborted' = FALSE
            /\ UNCHANGED outcome
       ELSE /\ pc' = validateOriginReturnsTo
            /\ outcome' = validateOriginCatch(fetchOutcome.error)
            /\ UNCHANGED <<fetchOutcome, aborted>>
  /\ UNCHANGED <<inputs, matcherVars, requests, timer, deadlinePassed, response, body>>
  /\ UNCHANGED outerVars

\* fetchWellKnownWebAuthn threw: line 301.
FetchCaught ==
  /\ pc = "fetchSettled"
  /\ fetchOutcome.kind = "throw"
  /\ pc' = validateOriginReturnsTo
  /\ outcome' = validateOriginCatch(fetchOutcome.error)
  /\ UNCHANGED <<inputs, matcherVars, fetchVars>>
  /\ UNCHANGED outerVars

\* fetchWellKnownWebAuthn returned the text: line 298 calls the matcher.
FetchReturned ==
  /\ pc = "fetchSettled"
  /\ fetchOutcome.kind = "return"
  /\ pc' = "parseJSON"
  /\ UNCHANGED <<inputs, matcherVars, outcome, fetchVars>>
  /\ UNCHANGED outerVars

\* The matcher returned or threw at line 298.
MatcherReturns ==
  /\ pc = "matcherReturned"
  /\ pc' = validateOriginReturnsTo
  /\ outcome' = IF outcome.kind = "throw"
                  THEN validateOriginCatch(outcome.error) ELSE outcome
  /\ UNCHANGED <<inputs, matcherVars, fetchVars>>
  /\ UNCHANGED outerVars

(***************************************************************************)
(* logger.ts: defaultLogger and createLoggingAdapter.  A call of a        *)
(* function gives the calls made to the sinks and whether it threw.        *)
(***************************************************************************)
\* if (error) f(message, error) else f(message): the arguments handed on.
passedOn(message, error) ==
  IF error = "undefined" THEN <<message>> ELSE <<message, error>>

SinkCall(sink, passed) == [sink |-> sink, args |-> passed]

\* Lines 9-15.
defaultLogger(message, error) ==
  [threw |-> FALSE, calls |-> <<SinkCall("console.log", passedOn(message, error))>>]

\* A call of loggingFunction; the default parameter of line 25 puts
\* defaultLogger in the place of undefined.
loggingFunctionCall(loggingFunction, message, error) ==
  IF loggingFunction = "undefined" THEN defaultLogger(message, error)
  ELSE [threw |-> loggingFunction = "throws",
        calls |-> <<SinkCall("loggingFunction", passedOn(message, error))>>]

\* An adapter without its try block.
adapter_noCatch(loggingFunction, message, error) ==
  loggingFunctionCall(loggingFunction, message, error)

\* Lines 26-43: the function createLoggingAdapter(loggingFunction) returns,
\* called with (message, error).
adapter(loggingFunction, message, error) ==
  IF loggingFunctionCall(loggingFunction, message, error).threw
    THEN [threw |-> FALSE,
          calls |-> loggingFunctionCall(loggingFunction, message, error).calls
                      \o <<SinkCall("console.error", <<"e">>),
                           SinkCall("console.log", passedOn(message, error))>>]
    ELSE loggingFunctionCall(loggingFunction, message, error)

\* createLoggingAdapter(args[1])(args[2], args[3]).
CallAdapter ==
  /\ pc = "adapter"
  /\ pc' = "done"
  /\ sinkCalls' = sinkCalls \o adapter(args[1], args[2], args[3]).calls
  /\ outcome' = IF adapter(args[1], args[2], args[3]).threw
                  THEN Throw("e") ELSE Return("undefined")
  /\ UNCHANGED <<inputs, matcherVars, fetchVars, suspended, result, finished, args>>

(***************************************************************************)
(* The variant of validateWellKnownJSON that logs: the same statements as  *)
(* lines 53-135 of validator.ts with calls of log = createLoggingAdapter(  *)
(* logger || defaultLogger) between them.  The first call of log is inside *)
(* the try block of JSON.parse and the second inside its catch block; an   *)
(* adapter gives for every message what it gives for the first.            *)
(***************************************************************************)
validateWellKnownJSON_logging(caller, text, logger) ==
  IF adapter(logger, "Parsing JSON data for validation", "undefined").threw
    THEN IF adapter(logger, "Failed to parse JSON data", "Error").threw
           THEN Throw("e")
           ELSE Return(BAD_RELYING_PARTY_ID_JSON_PARSE_ERROR)
    ELSE validateWellKnownJSON(caller, text)

(***************************************************************************)
(* index.ts: validatePasskeyOrigin(rpId, origin), lines 40-64, and         *)
(* validatePasskeyOriginFromJSON(origin, wellKnownJson), lines 74-96.      *)
(***************************************************************************)
\* Lines 49-56 and 81-88: the object returned for a status.
validationResult(status) ==
  [returned |-> TRUE, isValid |-> status = SUCCESS, status |-> status]

\* Lines 58-62 and 90-94: the object returned from the catch block.
caughtResult(status) == [returned |-> TRUE, isValid |-> FALSE, status |-> status]

\* The status each function reports for an exception.
caughtStatus ==
  IF fn = "validatePasskeyOrigin" THEN BAD_RELYING_PARTY_ID_NO_JSON_MATCH
  ELSE BAD_RELYING_PARTY_ID_JSON_PARSE_ERROR

\* Line 48: validateOrigin(origin, rpId).
CallValidateOrigin ==
  /\ pc = "index"
  /\ fn = "validatePasskeyOrigin"
  /\ callerOrigin' = args[2]
  /\ rpId' = args[1]
  /\ pc' = "validateOrigin"
  /\ UNCHANGED <<fn, jsonData, matcherVars, outcome, fetchVars, outerVars>>

\* Line 80: validateWellKnownJSON(origin, wellKnownJson).
CallValidateWellKnownJSON ==
  /\ pc = "index"
  /\ fn = "validatePasskeyOriginFromJSON"
  /\ callerOrigin' = args[1]
  /\ jsonData' = args[2]
  /\ pc' = "parseJSON"
  /\ UNCHANGED <<fn, rpId, matcherVars, outcome, fetchVars, outerVars>>

\* A function of index.ts without its try block.
ValidatorSettled_noCatch ==
  /\ pc = "validatorSettled"
  /\ pc' = "done"
  /\ result' = IF outcome.kind = "return"
                 THEN validationResult(outcome.value) ELSE result
  /\ UNCHANGED <<inputs, matcherVars, outcome, fetchVars, suspended, sinkCalls,
                 finished, args>>

\* The validator returned a status or threw: lines 49-62 and 81-94.
ValidatorSettled ==
  /\ pc = "validatorSettled"
  /\ pc' = "done"
  /\ result' = IF outcome.kind = "return"
                 THEN validationResult(outcome.value)
                 ELSE caughtResult(caughtStatus)
  /\ UNCHANGED <<inputs, matcherVars, outcome, fetchVars, suspended, sinkCalls,
                 finished, args>>

Next ==
  \/ ParseJSON
  \/ CheckOrigins
  \/ CheckStrings
  \/ ParseCaller
  \/ SkipInvalidURL
  \/ SkipEmptyHostname
  \/ SkipNoLabel
  \/ SkipOverQuota
  \/ ReturnSuccess
  \/ NoMatch
  \/ ReturnAfterScan
  \/ CallIsValidDomainForOrigin
  \/ DirectCheck
  \/ StartFetch
  \/ ResponseArrives
  \/ NetworkError
  \/ TimerFires
  \/ AbortRejects
  \/ DeadlinePasses
  \/ BodyRead
  \/ BodyFails
  \/ FetchCaught
  \/ FetchReturned
  \/ MatcherReturns
  \/ CallValidateOrigin
  \/ CallValidateWellKnownJSON
  \/ ValidatorSettled
  \/ CallAdapter

Spec == Init /\ [][Next]_vars

\* The steps of validateWellKnownJSON.
MatcherStep ==
  \/ ParseJSON
  \/ CheckOrigins
  \/ CheckStrings
  \/ ParseCaller
  \/ SkipInvalidURL
  \/ SkipEmptyHostname
  \/ SkipNoLabel
  \/ SkipOverQuota
  \/ ReturnSuccess
  \/ NoMatch
  \/ ReturnAfterScan

\* The steps validateOrigin takes by itself, once it can.
ProgramStep ==
  \/ MatcherStep
  \/ DirectCheck
  \/ StartFetch
  \/ AbortRejects
  \/ FetchCaught
  \/ FetchReturned
  \/ MatcherReturns

\* What the server and the network do, when they do anything.
EnvironmentStep ==
  \/ ResponseArrives
  \/ NetworkError
  \/ DeadlinePasses
  \/ BodyRead
  \/ BodyFails

NextValidateOrigin == ProgramStep \/ TimerFires \/ EnvironmentStep

(***************************************************************************)
(* A sequence of calls of validateWellKnownJSON: when one has returned or  *)
(* thrown, the next is made with any arguments.  What the finished call    *)
(* left in its locals stays where it is until the next call creates its    *)
(* own at lines 84-85.                                                     *)
(***************************************************************************)
MaxCalls == 3

InitSequence ==
  /\ fn = "validateWellKnownJSON"
  /\ callerOrigin \in OrchestratorCallers
  /\ jsonData \in FetchedDocuments
  /\ rpId = <<>>
  /\ pc = "parseJSON"
  /\ args = <<>>
  /\ InitLocals

CallAgain ==
  /\ pc = "done"
  /\ finished + 1 < MaxCalls
  /\ finished' = finished + 1
  /\ callerOrigin' \in OrchestratorCallers
  /\ jsonData' \in FetchedDocuments
  /\ pc' = "parseJSON"
  /\ outcome' = Pending
  /\ UNCHANGED <<fn, rpId, matcherVars, fetchVars, suspended, result, sinkCalls, args>>

NextSequence == MatcherStep \/ CallAgain

SequenceSpec == InitSequence /\ [][NextSequence]_vars

(***************************************************************************)
(* validateOrigin(callerOrigin, domain) as a function of its arguments and *)
(* of what its fetch gave: fetched is how fetchWellKnownWebAuthn settled   *)
(* and text the text it returned.                                          *)
(***************************************************************************)
matcherInTry(settled) ==
  IF settled.kind = "throw" THEN validateOriginCatch(settled.error) ELSE settled

validateOrigin(caller, domain, fetched, text) ==
  IF isValidDomainForOrigin(caller, domain) THEN Return(SUCCESS)
  ELSE IF fetched.kind = "throw" THEN validateOriginCatch(fetched.error)
  ELSE matcherInTry(validateWellKnownJSON(caller, text))

(***************************************************************************)
(* Two calls of validateOrigin in one JavaScript thread.  A call runs      *)
(* until it waits at an await (line 165 or 185) or returns; only then does *)
(* the other call run.  The call that waits keeps its arguments, its       *)
(* position, its timer, controller, request and response.  The locals of   *)
(* the matcher are not kept across a wait: validateWellKnownJSON has no    *)
(* await, it creates them at lines 84-85 and returns before any other call *)
(* runs.                                                                   *)
(***************************************************************************)
ConcurrentCallers == {https(h_foo_com), https(h_g_com)}

ConcurrentRpIds == {h_foo_com, h_g_com}

NotBegun(caller, domain) ==
  [present |-> TRUE, fn |-> "validateOrigin", callerOrigin |-> caller,
   rpId |-> domain, jsonData |-> JsonValue("malformed", "missing", <<>>),
   pc |-> "validateOrigin", outcome |-> Pending, requests |-> <<>>,
   timer |-> "none", aborted |-> FALSE, deadlinePassed |-> FALSE,
   response |-> NoResponse, body |-> NoBody, fetchOutcome |-> Pending]

\* The running call as it is kept while the other call runs.
Frame ==
  [present |-> TRUE, fn |-> fn, callerOrigin |-> callerOrigin, rpId |-> rpId,
   jsonData |-> jsonData, pc |-> pc, outcome |-> outcome, requests |-> requests,
   timer |-> timer, aborted |-> aborted, deadlinePassed |-> deadlinePassed,
   response |-> response, body |-> body, fetchOutcome |-> fetchOutcome]

InitConcurrent ==
  /\ fn = "validateOrigin"
  /\ callerOrigin = https(h_foo_com)
  /\ rpId \in ConcurrentRpIds
  /\ jsonData = JsonValue("malformed", "missing", <<>>)
  /\ pc = "validateOrigin"
  /\ requests = <<>>
  /\ timer = "none"
  /\ aborted = FALSE
  /\ deadlinePassed = FALSE
  /\ response = NoResponse
  /\ body = NoBody
  /\ fetchOutcome = Pending
  /\ idx = 1
  /\ uniqueLabels = {}
  /\ hitLimits = FALSE
  /\ outcome = Pending
  /\ suspended \in {NotBegun(c, d) : c \in ConcurrentCallers, d \in ConcurrentRpIds}
  /\ result = NoResult
  /\ sinkCalls = <<>>
  /\ finished = 0
  /\ args = <<>>

\* The running call waits at an await or has returned: the other call runs.
Switch ==
  /\ suspended.present
  /\ pc \in {"awaitResponse", "readBody", "done"}
  /\ suspended' = Frame
  /\ fn' = suspended.fn
  /\ callerOrigin' = suspended.callerOrigin
  /\ rpId' = suspended.rpId
  /\ jsonData' = suspended.jsonData
  /\ pc' = suspended.pc
  /\ outcome' = suspended.outcome
  /\ requests' = suspended.requests
  /\ timer' = suspended.timer
  /\ aborted' = suspended.aborted
  /\ deadlinePassed' = suspended.deadlinePassed
  /\ response' = suspended.response
  /\ body' = suspended.body
  /\ fetchOutcome' = suspended.fetchOutcome
  /\ UNCHANGED <<matcherVars, result, sinkCalls, finished, args>>

NextConcurrent == NextValidateOrigin \/ Switch

ConcurrentSpec == InitConcurrent /\ [][NextConcurrent]_vars

\* The calls of validateOrigin: the program runs while it can, and an armed
\* timer fires; the server and the network owe nothing.
LiveSpec ==
  /\ InitValidateOrigin
  /\ [][NextValidateOrigin]_vars
  /\ WF_vars(ProgramStep)
  /\ WF_vars(TimerFires)

(***************************************************************************)
(* What the specification says of validateWellKnownJSON, stated over the   *)
(* document and the caller alone.                                          *)
(***************************************************************************)
Matcher == fn = "validateWellKnownJSON"
Done == pc = "done"
Returned(v) == outcome.kind = "return" /\ outcome.value = v

DocItems == jsonData.items
Str(j) == DocItems[j].str

\* The document passes the structural check.
StructurallyValid ==
  /\ jsonData.top = "object"
  /\ jsonData.origins = "array"
  /\ \A j \in DOMAIN DocItems : DocItems[j].isString

CallerParses == newURL(callerOrigin).ok

\* The scan of the array has run to its end or to a match.
Scanned == Matcher /\ Done /\ StructurallyValid /\ CallerParses

ElemLabel(j) == labelOf(newURL(Str(j)).hostname)

\* Element j has an extractable registrable label.
Extractable(j) ==
  /\ newURL(Str(j)).ok
  /\ newURL(Str(j)).hostname # <<>>
  /\ ElemLabel(j).ok

\* The distinct extractable labels of the elements before position j.
LabelsBefore(j) ==
  {ElemLabel(k).label : k \in {i \in 1..(j - 1) : Extractable(i)}}

\* The position where the label of element j occurs first.
FirstOccurrence(j) ==
  CHOOSE f \in 1..j :
    /\ Extractable(f) /\ ElemLabel(f).label = ElemLabel(j).label
    /\ \A e \in 1..(f - 1) : ~(Extractable(e) /\ ElemLabel(e).label = ElemLabel(j).label)

\* The label of element j is among the first 5 distinct extractable labels.
AmongFirstFive(j) ==
  /\ Extractable(j)
  /\ Cardinality(LabelsBefore(FirstOccurrence(j))) < 5

\* Element j is rejected for carrying a new label when 5 are admitted.
RejectedOverQuota(j) == Extractable(j) /\ ~AmongFirstFive(j)

\* Element j has an extractable label and equals the caller in the comparison.
Matching(j) == Extractable(j) /\ matchesCaller(Str(j), callerOrigin)

\* C1: an element is compared only if its label is among the first 5
\* distinct extractable labels: a match on such an element gives SUCCESS, and a
\* document whose only matches carry a later label gives HIT_LIMITS.
C1_QuotaDecidesComparison ==
  Scanned =>
    LET matching == {j \in DOMAIN DocItems : Matching(j)}
        within == {j \in matching : AmongFirstFive(j)}
    IN  /\ within # {} => Returned(SUCCESS)
        /\ Returned(SUCCESS) => within # {}
        /\ (within = {} /\ matching # {}) =>
             Returned(BAD_RELYING_PARTY_ID_NO_JSON_MATCH_HIT_LIMITS)

\* A match on the element that brings the 5th distinct label.
C1_Witness ==
  /\ Scanned
  /\ Returned(SUCCESS)
  /\ Cardinality(LabelsBefore(idx)) = 4
  /\ ElemLabel(idx).label \notin LabelsBefore(idx)

CaseVariant(a, b) == a # b /\ toLowerCase(a) = toLowerCase(b)

AfterScheme(str) ==
  IF indexOf(str, s_schemeSep) = 0 THEN <<>>
  ELSE SubSeq(str, indexOf(str, s_schemeSep) + 3, Len(str))

AuthorityOf(str) ==
  LET rest == AfterScheme(str)
      ends == {k \in 1..Len(rest) : rest[k] \in {"/", "?", "#"}}
  IN  IF ends = {} THEN rest
      ELSE SubSeq(rest, 1, (CHOOSE k \in ends : \A e \in ends : k <= e) - 1)

SpelledScheme(str) ==
  IF indexOf(str, s_schemeSep) = 0 THEN str
  ELSE SubSeq(str, 1, indexOf(str, s_schemeSep) - 1)

SpelledHost(str) ==
  IF indexOf(AuthorityOf(str), c_colon) = 0 THEN AuthorityOf(str)
  ELSE SubSeq(AuthorityOf(str), 1, indexOf(AuthorityOf(str), c_colon) - 1)

SpelledPort(str) ==
  IF indexOf(AuthorityOf(str), c_colon) = 0 THEN <<>>
  ELSE SubSeq(AuthorityOf(str), indexOf(AuthorityOf(str), c_colon) + 1,
              Len(AuthorityOf(str)))

SameSchemeHostPort(a, b) ==
  /\ SpelledScheme(a) = SpelledScheme(b)
  /\ SpelledHost(a) = SpelledHost(b)
  /\ SpelledPort(a) = SpelledPort(b)

\* C4: an admitted element matches exactly when its scheme, host and port
\* all equal the caller's; what follows the host and port in the element is
\* ignored.
C4_MatchIffSchemeHostPort ==
  Scanned =>
    /\ Returned(SUCCESS) => SameSchemeHostPort(Str(idx), callerOrigin)
    /\ ~Returned(SUCCESS) =>
         \A j \in DOMAIN DocItems :
           AmongFirstFive(j) => ~SameSchemeHostPort(Str(j), callerOrigin)

\* The document fails the structural check: it does not parse, its top level
\* is not an object, origins is missing or not an array, or an element is
\* not a string.
StructurallyInvalid ==
  \/ jsonData.top # "object"
  \/ jsonData.origins # "array"
  \/ \E j \in DOMAIN DocItems : ~DocItems[j].isString

\* C5: every document that fails the structural check gives
\* JSON_PARSE_ERROR, and no element is matched before the check is complete.
C5_StructureErrors ==
  (Matcher /\ Done) =>
    /\ StructurallyInvalid => Returned(BAD_RELYING_PARTY_ID_JSON_PARSE_ERROR)
    /\ Returned(SUCCESS) => ~StructurallyInvalid

\* C6: a scan that ends without a match gives HIT_LIMITS exactly when
\* some element was rejected over the quota, NO_JSON_MATCH otherwise; an
\* empty origins array gives NO_JSON_MATCH.
C6_StatusAfterScan ==
  /\ (Scanned /\ ~Returned(SUCCESS)) =>
       IF \E j \in DOMAIN DocItems : RejectedOverQuota(j)
         THEN Returned(BAD_RELYING_PARTY_ID_NO_JSON_MATCH_HIT_LIMITS)
         ELSE Returned(BAD_RELYING_PARTY_ID_NO_JSON_MATCH)
  /\ (Matcher /\ Done /\ StructurallyValid /\ DocItems = <<>>) =>
       Returned(BAD_RELYING_PARTY_ID_NO_JSON_MATCH)

\* A scan ended without a match after an element was rejected over the quota.
C6_Witness ==
  /\ Scanned
  /\ Returned(BAD_RELYING_PARTY_ID_NO_JSON_MATCH_HIT_LIMITS)
  /\ \E j \in DOMAIN DocItems : RejectedOverQuota(j)

\* C7: a caller origin that does not parse gives NO_JSON_MATCH with a
\* structurally valid document and JSON_PARSE_ERROR with an invalid one.
C7_UnparseableCaller ==
  (Matcher /\ Done /\ ~CallerParses) =>
    IF StructurallyInvalid
      THEN Returned(BAD_RELYING_PARTY_ID_JSON_PARSE_ERROR)
      ELSE Returned(BAD_RELYING_PARTY_ID_NO_JSON_MATCH)

\* The element does not parse as a URL, has an empty host, or has a host
\* without a dot or one that is only a public suffix.
NoExtractableLabel(str) ==
  \/ ~newURL(str).ok
  \/ newURL(str).hostname = <<>>
  \/ indexOf(newURL(str).hostname, c_dot) = 0
  \/ newURL(str).hostname \in Range(PublicSuffixRules)

\* C8: an element without an extractable label is skipped: the step over
\* it moves to the next element and changes neither the label set, nor the
\* flag, nor the outcome, whatever the element's text.
C8_SkippedElements ==
  [][(InScan /\ NoExtractableLabel(originStr)) =>
       /\ pc' = "scan"
       /\ idx' = idx + 1
       /\ uniqueLabels' = uniqueLabels
       /\ hitLimits' = hitLimits
       /\ outcome' = outcome]_vars

\* An element equal to the caller string was skipped and the scan went on.
C8_Witness ==
  /\ Matcher
  /\ pc = "scan"
  /\ idx > 1
  /\ Str(idx - 1) = callerOrigin
  /\ NoExtractableLabel(Str(idx - 1))
  /\ uniqueLabels = {}
  /\ ~hitLimits

\* C9: the quota counts distinct labels, not elements: a matching element
\* gives SUCCESS when the elements up to it carry at most 5 distinct labels,
\* however many they are.
C9_QuotaCountsLabels ==
  Scanned =>
    \A j \in DOMAIN DocItems :
      (Matching(j) /\ Cardinality(LabelsBefore(j + 1)) <= 5) => Returned(SUCCESS)

\* A match after more than 5 elements that share one label.
C9_Witness ==
  /\ Scanned
  /\ Returned(SUCCESS)
  /\ idx > 6
  /\ \A k \in 1..idx : Extractable(k)
  /\ Cardinality(LabelsBefore(idx + 1)) = 1

\* The registrable domain psl gives for a host, if any.
RegistrableDomain(host) == pslParse(host)

\* What the specification says of isValidDomainForOrigin, for the host H of a
\* caller origin that parses.
AuthorizedForHost(H, d) ==
  \/ d = H
  \/ /\ endsWith(H, c_dot \o d)
     /\ RegistrableDomain(H).hasDomain
     /\ RegistrableDomain(d).hasDomain
     /\ RegistrableDomain(H).domain = RegistrableDomain(d).domain

\* C10: isValidDomainForOrigin is true exactly when domain equals the
\* caller's host H, or H ends with "." + domain and both have the same
\* registrable domain; it is false for a caller origin that does not parse.
C10_AuthorizedExactly ==
  (fn = "isValidDomainForOrigin" /\ Done) =>
    /\ outcome.kind = "return"
    /\ outcome.value <=>
         /\ URLParse(callerOrigin).ok
         /\ AuthorizedForHost(URLParse(callerOrigin).hostname, rpId)

\* A proper subdomain of the domain was authorized.
C10_Witness ==
  /\ fn = "isValidDomainForOrigin"
  /\ Done
  /\ outcome.value = TRUE
  /\ rpId # URLParse(callerOrigin).hostname

(***************************************************************************)
(* What the specification says of isValidDomainForOrigin.                  *)
(***************************************************************************)
Authorizer == fn = "isValidDomainForOrigin"

\* The hostname H of the caller origin.
CallerHost == URLParse(callerOrigin).hostname

\* C11: suffix collisions are rejected: when domain differs from H and H
\* does not end with "." + domain, the result is false.
C11_SuffixCollisionRejected ==
  (/\ Authorizer /\ Done
   /\ URLParse(callerOrigin).ok
   /\ rpId # CallerHost
   /\ ~endsWith(CallerHost, c_dot \o rpId)) => Returned(FALSE)

\* notfoo.com was refused for foo.com.
C11_Witness ==
  /\ Authorizer /\ Done
  /\ CallerHost = h_notfoo_com
  /\ rpId = h_foo_com
  /\ Returned(FALSE)

\* C12: the authorizer is reflexive: a domain equal to the hostname of a
\* caller origin that parses is authorized, also when the hostname has no
\* registrable domain.
C12_Reflexive ==
  (Authorizer /\ Done /\ URLParse(callerOrigin).ok /\ rpId = CallerHost)
    => Returned(TRUE)

\* A hostname without a registrable domain was authorized for itself.
C12_Witness ==
  /\ Authorizer /\ Done
  /\ URLParse(callerOrigin).ok
  /\ rpId = CallerHost
  /\ ~pslParse(CallerHost).hasDomain
  /\ Returned(TRUE)

\* C13: when domain differs from H, the result is false whenever psl gives
\* no registrable domain for H or for domain.
C13_UnresolvedRejected ==
  (/\ Authorizer /\ Done
   /\ URLParse(callerOrigin).ok
   /\ rpId # CallerHost
   /\ ~pslParse(CallerHost).hasDomain \/ ~pslParse(rpId).hasDomain)
    => Returned(FALSE)

\* A public suffix was refused for a host beneath it.
C13_Witness ==
  /\ Authorizer /\ Done
  /\ URLParse(callerOrigin).ok
  /\ rpId \in Range(PublicSuffixRules)
  /\ endsWith(CallerHost, c_dot \o rpId)
  /\ Returned(FALSE)

\* C14: the authorizer fails closed: for a caller origin that does not
\* parse it returns false, and does not throw, for every domain.
C14_FailsClosed ==
  (Authorizer /\ Done /\ ~URLParse(callerOrigin).ok) => Returned(FALSE)

\* A call with a caller origin that does not parse has returned.
C14_Witness ==
  /\ Authorizer /\ Done
  /\ ~URLParse(callerOrigin).ok
  /\ outcome.kind = "return"

(***************************************************************************)
(* What the specification says of validateOrigin and of the fetch.         *)
(***************************************************************************)
Orchestrator == fn = "validateOrigin"

\* The direct suffix check authorizes (callerOrigin, rpId).
DirectlyAuthorized ==
  /\ URLParse(callerOrigin).ok
  /\ AuthorizedForHost(URLParse(callerOrigin).hostname, rpId)

\* C15: when the direct check authorizes the pair, validateOrigin returns
\* SUCCESS and performs no fetch: no request is issued, no timer is armed.
C15_DirectSuccessNoFetch ==
  (Orchestrator /\ DirectlyAuthorized) =>
    /\ requests = <<>>
    /\ timer = "none"
    /\ response = NoResponse
    /\ Done => Returned(SUCCESS)

\* A call authorized by the direct check has returned.
C15_Witness ==
  /\ Orchestrator /\ Done
  /\ DirectlyAuthorized
  /\ Returned(SUCCESS)
  /\ requests = <<>>

\* C16: when the direct check fails, every failure of the fetch makes
\* validateOrigin return NO_JSON_MATCH.
C16_FetchFailuresFolded ==
  (Orchestrator /\ Done /\ fetchOutcome.kind = "throw")
    => Returned(BAD_RELYING_PARTY_ID_NO_JSON_MATCH)

\* A call whose fetch failed on an oversize body has returned.
C16_Witness ==
  /\ Orchestrator /\ Done
  /\ fetchOutcome = Throw("Response too large")
  /\ response.ok
  /\ ~declaredTooLarge(response.contentLength)
  /\ Returned(BAD_RELYING_PARTY_ID_NO_JSON_MATCH)

\* C17: when the fetch succeeds, validateOrigin returns exactly the
\* outcome of the matcher for the caller origin and the body.
C17_DelegatesToMatcher ==
  [][(Orchestrator /\ pc = "matcherReturned") => outcome' = outcome]_vars

\* The statuses validateOrigin may return.
OrchestratorStatuses ==
  {SUCCESS, BAD_RELYING_PARTY_ID_JSON_PARSE_ERROR,
   BAD_RELYING_PARTY_ID_NO_JSON_MATCH,
   BAD_RELYING_PARTY_ID_NO_JSON_MATCH_HIT_LIMITS}

\* validateOrigin has not thrown, and has returned one of its statuses.
C18_ReturnsStatus ==
  (Orchestrator /\ Done) =>
    /\ outcome.kind = "return"
    /\ outcome.value \in OrchestratorStatuses

\* C18: validateOrigin never throws, and every call terminates with one
\* of the statuses SUCCESS, JSON_PARSE_ERROR, NO_JSON_MATCH and HIT_LIMITS.
C18_TerminatesWithStatus == []C18_ReturnsStatus /\ <>Done

\* The rpId forms a valid URL at lines 145-155.
RpIdIsURL == URLParse(formatDomain(rpId)).ok

\* C19: a call issues at most one request, and exactly one when the
\* direct check fails and the rpId forms a valid URL.
C19_AtMostOneRequest ==
  Orchestrator =>
    /\ Len(requests) <= 1
    /\ (Done /\ ~DirectlyAuthorized /\ RpIdIsURL) => Len(requests) = 1
    /\ (Done /\ ~RpIdIsURL) => Len(requests) = 0

\* A call whose one request failed has returned.
C19_Witness ==
  /\ Orchestrator /\ Done
  /\ fetchOutcome = Throw("Network error")
  /\ Len(requests) = 1

\* C20: the whole fetch is bounded by the timeout: once TIMEOUT ms have
\* passed before the body was read to its end, the request is aborted, the
\* fetch fails with 'Request timeout' and validateOrigin returns NO_JSON_MATCH.
C20_FetchBoundedByTimeout ==
  (Orchestrator /\ deadlinePassed) =>
    /\ aborted
    /\ fetchOutcome.kind # "pending" => fetchOutcome = Throw("Request timeout")
    /\ Done => Returned(BAD_RELYING_PARTY_ID_NO_JSON_MATCH)

(***************************************************************************)
(* The ceiling on the response body.                                       *)
(***************************************************************************)
\* The text fetchWellKnownWebAuthn returns never has more than MAX_BODY_SIZE
\* UTF-16 code units.
C21_CodeUnitsCapped ==
  (body # NoBody /\ body.length > MAX_BODY_SIZE)
    => fetchOutcome = Throw("Response too large")

\* C21: every response whose body is larger than MAX_BODY_SIZE bytes is
\* rejected with 'Response too large', whatever its Content-Length header
\* says; a body of exactly MAX_BODY_SIZE bytes is accepted; and a response
\* that declares more than MAX_BODY_SIZE is rejected before its body is read.
C21_BodyCeilingInBytes ==
  /\ body.bytes > MAX_BODY_SIZE => fetchOutcome = Throw("Response too large")
  /\ (body # NoBody /\ body.bytes <= MAX_BODY_SIZE) => fetchOutcome = Return("text")
  /\ (response.received /\ declaredTooLarge(response.contentLength))
       => /\ body = NoBody
          /\ fetchOutcome =
               IF response.ok THEN Throw("Response too large") ELSE Throw("HTTP error")

(***************************************************************************)
(* Calls in sequence.                                                      *)
(***************************************************************************)
\* C22: in a sequence of calls of validateWellKnownJSON every call returns
\* (or throws) what one call by itself gives for its callerOrigin and
\* document, whatever calls came before it.
C22_NoStateBetweenCalls ==
  (Matcher /\ Done) => outcome = validateWellKnownJSON(callerOrigin, jsonData)

\* A call that was not the first of its sequence has found its caller in a
\* document of one element.
C22_Witness ==
  /\ Matcher /\ Done
  /\ finished >= 1
  /\ outcome = Return(SUCCESS)
  /\ Len(jsonData.items) = 1
  /\ ~hitLimits

(***************************************************************************)
(* Calls that overlap.                                                     *)
(***************************************************************************)
\* C23: of two calls of validateOrigin that overlap, in every interleaving,
\* each returns what the same call gives by itself for its arguments and
\* for what its own fetch gave.
C23_NoInterference ==
  /\ pc = "done" =>
       outcome = validateOrigin(callerOrigin, rpId, fetchOutcome, jsonData)
  /\ (suspended.present /\ suspended.pc = "done") =>
       suspended.outcome =
         validateOrigin(suspended.callerOrigin, suspended.rpId,
                        suspended.fetchOutcome, suspended.jsonData)

\* Both calls have returned after fetching, one with SUCCESS and the other,
\* whose document went over the quota, with HIT_LIMITS.
C23_Witness ==
  /\ suspended.present
  /\ pc = "done" /\ suspended.pc = "done"
  /\ Len(requests) = 1 /\ Len(suspended.requests) = 1
  /\ outcome = Return(SUCCESS)
  /\ suspended.outcome = Return(BAD_RELYING_PARTY_ID_NO_JSON_MATCH_HIT_LIMITS)
  /\ hitLimits

(***************************************************************************)
(* The URL requested.                                                      *)
(***************************************************************************)
\* The scheme of the request: http only for an rpId that starts with
\* http://.
RequestScheme == IF startsWith(rpId, s_http \o s_schemeSep) THEN s_http ELSE s_https

\* C24: every URL handed to fetch is scheme://hostname/.well-known/webauthn,
\* the scheme https unless the rpId starts with http://, the hostname the
\* host the rpId spells, in lower case; the rpId's port, path, query and
\* fragment are not in it.
C24_RequestedURL ==
  \A k \in DOMAIN requests :
    requests[k] =
      RequestScheme \o s_schemeSep
        \o toLowerCase(SpelledHost(formatDomain(rpId))) \o s_WELL_KNOWN_PATH

\* The request made for an rpId that carries a port, a path, a query and a
\* fragment.
C24_Witness ==
  /\ rpId = h_port_path
  /\ requests = <<s_https \o s_schemeSep \o h_g_com \o s_WELL_KNOWN_PATH>>

(***************************************************************************)
(* The functions of index.ts.                                              *)
(***************************************************************************)
ViaIndex == fn \in {"validatePasskeyOrigin", "validatePasskeyOriginFromJSON"}

\* C25: validatePasskeyOrigin(rpId, origin) and
\* validatePasskeyOriginFromJSON(origin, json) always return an object; its
\* isValid is true exactly when its status is SUCCESS; its status is the one
\* validateOrigin(origin, rpId), respectively validateWellKnownJSON(origin,
\* json), returned; and when the validator threw, isValid is false and the
\* status is NO_JSON_MATCH, respectively JSON_PARSE_ERROR.
C25_WrappersReportStatus ==
  (ViaIndex /\ Done) =>
    /\ result.returned
    /\ result.isValid <=> result.status = SUCCESS
    /\ outcome.kind = "return" => result.status = outcome.value
    /\ outcome.kind = "throw" =>
         /\ ~result.isValid
         /\ result.status =
              IF fn = "validatePasskeyOrigin"
                THEN BAD_RELYING_PARTY_ID_NO_JSON_MATCH
                ELSE BAD_RELYING_PARTY_ID_JSON_PARSE_ERROR
    /\ outcome =
         IF fn = "validatePasskeyOrigin"
           THEN validateOrigin(args[2], args[1], fetchOutcome, jsonData)
           ELSE validateWellKnownJSON(args[1], args[2])

\* validatePasskeyOriginFromJSON has reported the exception
\* validateWellKnownJSON threw.
C25_Witness ==
  /\ fn = "validatePasskeyOriginFromJSON"
  /\ Done
  /\ outcome.kind = "throw"
  /\ result = caughtResult(BAD_RELYING_PARTY_ID_JSON_PARSE_ERROR)

(***************************************************************************)
(* Logging.                                                                *)
(***************************************************************************)
AdapterCalled == fn = "createLoggingAdapter" /\ Done

\* C26: a call of the adapter never throws.  When the wrapped function
\* throws, the error goes to console.error and then the message, with the
\* error argument if one was given, to console.log; with no function
\* supplied the message goes to console.log alone; and a supplied function
\* that returns is the only sink called.
C26_AdapterNeverThrows ==
  AdapterCalled =>
    /\ outcome = Return("undefined")
    /\ args[1] = "throws" =>
         /\ Len(sinkCalls) = 3
         /\ sinkCalls[1].sink = "loggingFunction"
         /\ sinkCalls[2] = SinkCall("console.error", <<"e">>)
         /\ sinkCalls[3].sink = "console.log"
         /\ sinkCalls[3].args[1] = args[2]
         /\ args[3] = "Error" => sinkCalls[3].args = <<args[2], "Error">>
         /\ args[3] = "undefined" => sinkCalls[3].args = <<args[2]>>
    /\ args[1] = "undefined" =>
         /\ Len(sinkCalls) = 1
         /\ sinkCalls[1].sink = "console.log"
         /\ sinkCalls[1].args[1] = args[2]
    /\ args[1] = "returns" =>
         /\ Len(sinkCalls) = 1
         /\ sinkCalls[1].sink = "loggingFunction"
         /\ sinkCalls[1].args[1] = args[2]

\* The adapter has been called with an error argument and a function that
\* throws.
C26_Witness ==
  /\ AdapterCalled
  /\ args[1] = "throws"
  /\ args[3] = "Error"
  /\ Len(sinkCalls) = 3

ScanStepKeepsQuota ==
  pc = "scan" =>
    /\ uniqueLabels \subseteq uniqueLabels'
    /\ hitLimits => hitLimits'
    /\ (~hitLimits /\ hitLimits') =>
         (Cardinality(uniqueLabels) = MAX_LABELS /\ uniqueLabels' = uniqueLabels)

\* C27: at every step of the scan the set of admitted labels has at most
\* MAX_LABELS members and only grows; the flag is set only while the set
\* holds exactly MAX_LABELS labels; and once set it is not cleared for the
\* rest of the call.
C27_QuotaInvariants ==
  /\ [](Cardinality(uniqueLabels) <= MAX_LABELS)
  /\ [](hitLimits => Cardinality(uniqueLabels) = MAX_LABELS)
  /\ [][ScanStepKeepsQuota]_vars

\* The scan has set the flag and has elements left to look at.
C27_Witness ==
  /\ pc = "scan"
  /\ hitLimits
  /\ Cardinality(uniqueLabels) = MAX_LABELS
  /\ idx <= Len(jsonData.items)

(***************************************************************************)
(* The element that decides SUCCESS.                                       *)
(***************************************************************************)
\* The document cut off after element j.
TruncatedAfter(j) == [jsonData EXCEPT !.items = SubSeq(jsonData.items, 1, j)]

FetchHasSettled == fetchOutcome.kind # "pending"

\* C29: once fetchWellKnownWebAuthn has returned or thrown, on whichever
\* path, the timer it armed is not pending, and its controller is not
\* aborted afterwards.
C29_TimerClearedOnExit ==
  /\ [](FetchHasSettled => timer # "armed")
  /\ [][FetchHasSettled => (aborted' = aborted /\ timer' = timer)]_vars

\* The call returned the text; the deadline passed while the body was read
\* and the timer, cleared before, did not fire.
C29_Witness ==
  /\ fn = "validateOrigin"
  /\ Done
  /\ fetchOutcome = Return("text")
  /\ timer = "cleared"
  /\ deadlinePassed
  /\ ~aborted

=============================================================================
